---- MODULE Spec2Model ----
(***************************************************************************)
(* StitchPix frontend (src/src/App.js, and its second authoring iteration  *)
(* src/unnamed/part_000): the single React component, its event handlers,  *)
(* its asynchronous operations and the canvas compositor, as a state       *)
(* machine.  Names follow src/src/App.js.                                  *)
(*                                                                         *)
(* Values.  A JavaScript null is the record Null where the value is an     *)
(* object and the string NULL where it is a string.  Texts whose content   *)
(* the code inspects character by character (e-mail, name) are sequences   *)
(* of one-character strings; texts of which only the length or the         *)
(* emptiness is read (password, credential, token) are strings.            *)
(***************************************************************************)
EXTENDS Integers, Sequences, FiniteSets, Bags, TLC

VARIABLES
  mountedRef,         \* mountedRef.current
  mountPc,            \* mount effects: "hydrate", "persist", "repersist", "ready"
  currentPage,        \* "login" | "upload" | "results"
  isSignUp,
  showLogoutConfirm,
  user,               \* profile record or Null
  token,              \* string or NULL
  authError,
  isLoadingAuth,
  authName, authEmail, authPassword,
  userPhoto, dressPhoto,      \* data URL record or Null
  generatedImages,    \* sequence of result records
  apiKey,
  isGenerating,
  isUploadingImage,
  errorMessage,
  selectedModel,
  localStorage,       \* [token, user, api_key]
  authOps,            \* outstanding login / signup requests, oldest first
  readOps,            \* outstanding FileReader reads, a bag: they settle in any order
  inputFiles,         \* e.target.files[0] of the two file inputs, Null when empty
  genOps,             \* outstanding handleGenerate calls, oldest first
  cmp                 \* a createMergedImages call made on its own (SpecCompose)

vars == <<mountedRef, mountPc, currentPage, isSignUp, showLogoutConfirm, user, token,
          authError, isLoadingAuth, authName, authEmail, authPassword, userPhoto,
          dressPhoto, generatedImages, apiKey, isGenerating, isUploadingImage,
          errorMessage, selectedModel, localStorage, authOps, readOps,
          inputFiles, genOps, cmp>>

uiVars == <<mountedRef, mountPc, currentPage, isSignUp, showLogoutConfirm, user, token,
            authError, isLoadingAuth, authName, authEmail, authPassword, userPhoto,
            dressPhoto, generatedImages, apiKey, isGenerating, isUploadingImage,
            errorMessage, selectedModel, localStorage, authOps, readOps, inputFiles,
            genOps>>

Null == [null |-> TRUE]
NULL == "null"

\* The two file inputs of the upload page holding no file; they are rendered by the
\* upload page only, and a page rendered anew has new, empty inputs.
NoFiles == [user |-> Null, dress |-> Null]

(***************************************************************************)
(* Bounds of the model.                                                    *)
(***************************************************************************)
MaxDim == 6          \* image widths and heights of SpecCompose range over 1..MaxDim

\* MathRound truncating like Math.floor.
MathFloor(n, d) == n \div d

\* Math.round(n / d) for d > 0: JavaScript rounds halves towards +infinity.
MathRound(n, d) == (2 * n + d) \div (2 * d)

(***************************************************************************)
(* Images.  A data URL is a record [data, decodes, width, height]: the     *)
(* bytes it carries, whether an Image element given it as src fires load   *)
(* (TRUE) or error (FALSE), and the decoded dimensions.                    *)
(***************************************************************************)
DataUrl(data, decodes, width, height) ==
  [data |-> data, decodes |-> decodes, width |-> width, height |-> height]

\* canvas.toDataURL("image/png") of a canvas holding the garment as base layer and the
\* subject drawn into the face region; drawn is "crop" (9-argument drawImage) or
\* "whole" (5-argument drawImage of the catch block).
CanvasPng(canvasW, canvasH, base, face, drawn, src, dst) ==
  [png |-> TRUE, width |-> canvasW, height |-> canvasH, base |-> base.data,
   face |-> face.data, drawn |-> drawn, src |-> src, dst |-> dst]

NoJob == [pc |-> "none"]

\* Destination face region <<x, y, width, height>> on a canvas of canvasW x canvasH.
FaceRegion(canvasW, canvasH) ==
  LET faceWidth == MathRound(canvasW * 25, 100)
      faceHeight == MathRound(faceWidth * 12, 10)
      faceX == MathRound(canvasW - faceWidth, 2)
      faceY == MathRound(canvasH * 8, 100)
  IN <<faceX, faceY, faceWidth, faceHeight>>

\* Source crop <<uX, uY, uW, uH>> of a subject image of imgW x imgH.
CropRegion(imgW, imgH) ==
  <<MathRound(imgW * 25, 100), MathRound(imgH * 10, 100),
    MathRound(imgW * 50, 100), MathRound(imgH * 40, 100)>>

(***************************************************************************)
(* createMergedImages(userPhotoData, dressPhotoData).  A call is a job     *)
(* record; pc is "userDecoding" (userImg.src set, its load/error pending), *)
(* "dressDecoding" (dressImg.src set), "resolved" (resolve called),        *)
(* "rejected" (the promise rejected) or "threw" (a callback threw before   *)
(* calling resolve: the promise is pending and no handler remains).        *)
(* userImg and dressImg are the two Image elements: "unset" (no src        *)
(* assigned), "decoding" (src assigned, no event yet), "loaded" or         *)
(* "failed".                                                               *)
(***************************************************************************)
\* createMergedImages assigning both src attributes in the executor.
createMergedImagesParallel(userPhotoData, dressPhotoData) ==
  [pc |-> "userDecoding", u |-> userPhotoData, d |-> dressPhotoData,
   result |-> <<>>, canvas |-> <<0, 0>>,
   userImg |-> "decoding", dressImg |-> "decoding"]

\* The promise executor: creates the canvas and both Image elements, installs the
\* subject's handlers and starts the subject decode.
createMergedImages(userPhotoData, dressPhotoData) ==
  [pc |-> "userDecoding", u |-> userPhotoData, d |-> dressPhotoData,
   result |-> <<>>, canvas |-> <<0, 0>>,
   userImg |-> "decoding", dressImg |-> "unset"]

\* userImg.onload: installs the garment's handlers and starts the garment decode.
UserImgOnload(job) ==
  [job EXCEPT !.pc = "dressDecoding", !.userImg = "loaded", !.dressImg = "decoding"]

\* userImg.onerror: resolves with the garment data as an "original" result.
UserImgOnerror(job) ==
  [job EXCEPT !.pc = "resolved", !.userImg = "failed",
              !.result = <<[id |-> 1, url |-> job.d, quality |-> "Original",
                            source |-> "original"]>>]

\* DressImgOnerror resolving with the garment data, as userImg.onerror does.
DressImgOnerrorGarment(job) ==
  [job EXCEPT !.pc = "resolved", !.dressImg = "failed",
              !.result = <<[id |-> 1, url |-> job.d, quality |-> "Original",
                            source |-> "original"]>>]

\* dressImg.onerror: resolves with the subject data as an "original" result.
DressImgOnerror(job) ==
  [job EXCEPT !.pc = "resolved", !.dressImg = "failed",
              !.result = <<[id |-> 1, url |-> job.u, quality |-> "Original",
                            source |-> "original"]>>]

\* DressImgOnload sizing the canvas to the subject image instead of the garment.
DressImgOnloadSubjectSized(job, baseOk, cropOk, wholeOk, encodeOk) ==
  LET canvasW == job.u.width
      canvasH == job.u.height
      sized == [job EXCEPT !.canvas = <<canvasW, canvasH>>, !.dressImg = "loaded"]
      dst == FaceRegion(canvasW, canvasH)
      src == CropRegion(job.u.width, job.u.height)
      drawn == IF cropOk THEN "crop" ELSE "whole"
      mergedUrl == CanvasPng(canvasW, canvasH, job.d, job.u, drawn,
                             IF cropOk THEN src ELSE <<0, 0, job.u.width, job.u.height>>,
                             dst)
  IN IF ~baseOk THEN [sized EXCEPT !.pc = "threw"]
     ELSE IF ~cropOk /\ ~wholeOk THEN [sized EXCEPT !.pc = "threw"]
     ELSE IF ~encodeOk THEN [sized EXCEPT !.pc = "threw"]
     ELSE [sized EXCEPT !.pc = "resolved",
                        !.result = <<[id |-> 1, url |-> mergedUrl,
                                      quality |-> "Canvas Merged", source |-> "canvas"]>>]

\* dressImg.onload.  baseOk, cropOk, wholeOk, encodeOk: whether the base
\* drawImage, the 9-argument drawImage inside try, the 5-argument drawImage inside
\* catch and canvas.toDataURL return (TRUE) or throw (FALSE).  Only the 9-argument
\* draw is inside a try block.
DressImgOnload(job, baseOk, cropOk, wholeOk, encodeOk) ==
  LET canvasW == job.d.width
      canvasH == job.d.height
      sized == [job EXCEPT !.canvas = <<canvasW, canvasH>>, !.dressImg = "loaded"]
      dst == FaceRegion(canvasW, canvasH)
      src == CropRegion(job.u.width, job.u.height)
      drawn == IF cropOk THEN "crop" ELSE "whole"
      mergedUrl == CanvasPng(canvasW, canvasH, job.d, job.u, drawn,
                             IF cropOk THEN src ELSE <<0, 0, job.u.width, job.u.height>>,
                             dst)
  IN IF ~baseOk THEN [sized EXCEPT !.pc = "threw"]
     ELSE IF ~cropOk /\ ~wholeOk THEN [sized EXCEPT !.pc = "threw"]
     ELSE IF ~encodeOk THEN [sized EXCEPT !.pc = "threw"]
     ELSE [sized EXCEPT !.pc = "resolved",
                        !.result = <<[id |-> 1, url |-> mergedUrl,
                                      quality |-> "Canvas Merged", source |-> "canvas"]>>]

\* The jobs one browser event can turn job into: the load or error event of the
\* image being decoded, with every outcome of the canvas calls.
ComposeSteps(job) ==
  IF job.pc = "userDecoding"
    THEN IF job.u.decodes THEN {UserImgOnload(job)} ELSE {UserImgOnerror(job)}
  ELSE IF job.pc = "dressDecoding"
    THEN IF job.d.decodes
           THEN {DressImgOnload(job, b[1], b[2], b[3], b[4]) :
                   b \in BOOLEAN \X BOOLEAN \X BOOLEAN \X BOOLEAN}
           ELSE {DressImgOnerror(job)}
  ELSE {}

\* Inputs of SpecCompose: every decodable image of 1..MaxDim x 1..MaxDim, an 800 x
\* 600 and a 1000 x 1500 image, and one undecodable payload, for the subject ("s")
\* and for the garment ("g").
ComposeInputs(data) ==
  {DataUrl(data, TRUE, w, h) : w \in 1..MaxDim, h \in 1..MaxDim}
    \cup {DataUrl(data, TRUE, 800, 600), DataUrl(data, TRUE, 1000, 1500)}
    \cup {DataUrl(data, FALSE, 0, 0)}


(***************************************************************************)
(* Model registry.                                                         *)
(***************************************************************************)
aiModels ==
  [free |-> <<[id |-> "canvas", name |-> "Canvas Merge (Free)", needsApi |-> FALSE],
              [id |-> "nanobanana", name |-> "Nano Banana API", needsApi |-> TRUE],
              [id |-> "deepai", name |-> "DeepAI Image Editor", needsApi |-> TRUE],
              [id |-> "huggingface", name |-> "Hugging Face Inference API",
               needsApi |-> TRUE]>>,
   paid |-> <<[id |-> "replicate", name |-> "Replicate API", needsApi |-> TRUE],
              [id |-> "stability", name |-> "Stability AI", needsApi |-> TRUE]>>]

allModels == aiModels.free \o aiModels.paid

ModelIds == {allModels[i].id : i \in DOMAIN allModels}

\* allModels.find((m) => m.id === id): the first entry with that id.
FindModel(id) ==
  allModels[CHOOSE i \in DOMAIN allModels :
              /\ allModels[i].id = id
              /\ \A j \in 1..(i - 1) : allModels[j].id # id]

currentModelData == FindModel(selectedModel)

NoMsg == <<>>

(***************************************************************************)
(* Remote backend adapters.  A response is [arrived, ok, status, body]:    *)
(* arrived = FALSE is a rejected fetch (network error); body is            *)
(* "malformed" (res.json() rejects), "{}" (no URL field), "output_url" or  *)
(* "image_url" (the one URL field the JSON carries).                      *)
(***************************************************************************)
Response(arrived, ok, status, body) ==
  [arrived |-> arrived, ok |-> ok, status |-> status, body |-> body]

GenResponses ==
  {Response(FALSE, FALSE, "", ""), Response(TRUE, FALSE, "500", ""),
   Response(TRUE, TRUE, "200", "malformed"), Response(TRUE, TRUE, "200", "{}"),
   Response(TRUE, TRUE, "200", "output_url"), Response(TRUE, TRUE, "200", "image_url")}

Thrown(message) == [threw |-> TRUE, message |-> message, value |-> <<>>]
Returned(value) == [threw |-> FALSE, message |-> "", value |-> value]

\* callNanoBanana after its fetch settles with response r.
callNanoBanana(r) ==
  IF ~r.arrived THEN Thrown("Failed to fetch")
  ELSE IF ~r.ok THEN Thrown("NanoBanana API failed (" \o r.status \o ")")
  ELSE IF r.body = "malformed" THEN Thrown("Unexpected token")
  ELSE IF r.body \in {"output_url", "image_url"}
    THEN Returned(<<[id |-> 1, url |-> [href |-> r.body],
                     quality |-> "AI Enhanced (NanoBanana)", source |-> "nanobanana"]>>)
  ELSE Thrown("NanoBanana returned no image URL")

\* callDeepAI after its fetch settles with response r.
callDeepAI(r) ==
  IF ~r.arrived THEN Thrown("Failed to fetch")
  ELSE IF ~r.ok THEN Thrown("DeepAI failed (" \o r.status \o ")")
  ELSE IF r.body = "malformed" THEN Thrown("Unexpected token")
  ELSE IF r.body = "output_url"
    THEN Returned(<<[id |-> 1, url |-> [href |-> r.body],
                     quality |-> "AI Enhanced (DeepAI)", source |-> "deepai"]>>)
  ELSE Thrown("DeepAI returned no image")

(***************************************************************************)
(* handleGenerate.  An outstanding call is a record: the values its        *)
(* closure captured (model, key, u, d), pc "fetch" (awaiting an adapter's  *)
(* fetch) or "compose" (awaiting createMergedImages), phase "first" (the   *)
(* try block) or "fallback" (the catch block), the compositor job, and log,*)
(* the outbound requests ("fetch") and compositor calls ("compose") the    *)
(* call has made so far, in order.                                         *)
(***************************************************************************)
MaxGenOps == 2       \* handleGenerate calls outstanding at once
MaxAuthOps == 2      \* login / signup requests outstanding at once
MaxReadOps == 2      \* FileReader reads outstanding at once

MinPasswordLen == 6
MaxImageBytes == 6 * 1024 * 1024

\* The guard of line 364: a photo is missing.
MissingPhoto == userPhoto = Null \/ dressPhoto = Null

\* MissingCredential with the credential compared to null instead of tested for
\* emptiness.
MissingCredentialNullOnly == currentModelData.needsApi /\ apiKey = NULL

\* The guard of line 368: the model needs a credential and none is stored.
MissingCredential == currentModelData.needsApi /\ apiKey = ""

\* Dispatch choosing the remote adapter whenever a credential is stored.
DispatchOnCredential(model, key, u, d) ==
  IF model \in {"nanobanana", "deepai"} \/ key # ""
    THEN [model |-> model, key |-> key, u |-> u, d |-> d, pc |-> "fetch",
          phase |-> "first", job |-> NoJob, log |-> <<"fetch">>]
    ELSE [model |-> model, key |-> key, u |-> u, d |-> d, pc |-> "compose",
          phase |-> "first", job |-> createMergedImages(u, d), log |-> <<"compose">>]

\* Lines 376-378: the first attempt of a call with the captured values.
Dispatch(model, key, u, d) ==
  IF model \in {"nanobanana", "deepai"}
    THEN [model |-> model, key |-> key, u |-> u, d |-> d, pc |-> "fetch",
          phase |-> "first", job |-> NoJob, log |-> <<"fetch">>]
    ELSE [model |-> model, key |-> key, u |-> u, d |-> d, pc |-> "compose",
          phase |-> "first", job |-> createMergedImages(u, d), log |-> <<"compose">>]

\* Fallback retrying the remote adapter instead of running the compositor.
FallbackRetriesRemote(op) ==
  [op EXCEPT !.pc = "fetch", !.phase = "fallback", !.log = @ \o <<"fetch">>]

\* Lines 385-387: the catch block up to its await.
Fallback(op) ==
  [op EXCEPT !.pc = "compose", !.phase = "fallback",
             !.job = createMergedImages(op.u, op.d), !.log = @ \o <<"compose">>]

Remove(seq, i) == SubSeq(seq, 1, i - 1) \o SubSeq(seq, i + 1, Len(seq))

\* The finally block of handleGenerate.
GenerateFinally == isGenerating' = IF mountedRef THEN FALSE ELSE isGenerating

handleGenerate ==
  /\ Len(genOps) < MaxGenOps
  /\ IF MissingPhoto
       THEN /\ errorMessage' = <<"Upload both your photo and the dress model.">>
            /\ UNCHANGED <<isGenerating, genOps>>
     ELSE IF MissingCredential
       THEN /\ errorMessage' = <<"API key required for ", currentModelData.name>>
            /\ UNCHANGED <<isGenerating, genOps>>
     ELSE /\ errorMessage' = NoMsg
          /\ isGenerating' = TRUE
          /\ genOps' = Append(genOps, Dispatch(selectedModel, apiKey, userPhoto, dressPhoto))
  /\ UNCHANGED <<mountedRef, mountPc, currentPage, isSignUp, showLogoutConfirm, user,
                 token, authError, isLoadingAuth, authName, authEmail, authPassword,
                 userPhoto, dressPhoto, generatedImages, apiKey, isUploadingImage,
                 selectedModel, localStorage, authOps, readOps, inputFiles, cmp>>

\* The adapter's fetch of call i settles with response r: lines 376-397 from the
\* await on.
GenFetchSettles(i, r) ==
  /\ i \in DOMAIN genOps
  /\ genOps[i].pc = "fetch"
  /\ LET op == genOps[i]
         out == IF op.model = "nanobanana" THEN callNanoBanana(r) ELSE callDeepAI(r)
     IN IF ~out.threw /\ Len(out.value) > 0
          THEN /\ generatedImages' = out.value
               /\ currentPage' = "results"
               /\ GenerateFinally
               /\ genOps' = Remove(genOps, i)
               /\ UNCHANGED errorMessage
          ELSE /\ errorMessage' = <<IF out.threw THEN out.message
                                     ELSE "No images returned from model",
                                    " - falling back to canvas merge...">>
               /\ genOps' = [genOps EXCEPT ![i] = Fallback(op)]
               /\ UNCHANGED <<generatedImages, currentPage, isGenerating>>
  /\ inputFiles' = IF currentPage' = "upload" THEN inputFiles ELSE NoFiles
  /\ UNCHANGED <<mountedRef, mountPc, isSignUp, showLogoutConfirm, user, token,
                 authError, isLoadingAuth, authName, authEmail, authPassword,
                 userPhoto, dressPhoto, apiKey, isUploadingImage, selectedModel,
                 localStorage, authOps, readOps, cmp>>

\* The fetch of an outstanding call settles with one of responses.
GenFetchResponse(responses) ==
  \E i \in DOMAIN genOps : \E r \in responses : GenFetchSettles(i, r)

\* An image event of the compositor job of call i, leaving it as job next, and, when
\* that settles the promise, the rest of handleGenerate.
GenComposeEvent(i, next) ==
  /\ i \in DOMAIN genOps
  /\ genOps[i].pc = "compose"
  /\ next \in ComposeSteps(genOps[i].job)
  /\ LET op == genOps[i]
     IN IF next.pc = "resolved"
          THEN IF op.phase = "first" /\ Len(next.result) = 0
                 THEN /\ errorMessage' = <<"No images returned from model",
                                           " - falling back to canvas merge...">>
                      /\ genOps' = [genOps EXCEPT ![i] = Fallback(op)]
                      /\ UNCHANGED <<generatedImages, currentPage, isGenerating>>
                 ELSE /\ generatedImages' = next.result
                      /\ currentPage' = "results"
                      /\ GenerateFinally
                      /\ genOps' = Remove(genOps, i)
                      /\ UNCHANGED errorMessage
        ELSE IF next.pc = "rejected"
          THEN IF op.phase = "first"
                 THEN /\ errorMessage' = <<"createMergedImages rejected",
                                           " - falling back to canvas merge...">>
                      /\ genOps' = [genOps EXCEPT ![i] = Fallback(op)]
                      /\ UNCHANGED <<generatedImages, currentPage, isGenerating>>
                 ELSE /\ errorMessage' = <<"Generation failed: ",
                                           "createMergedImages rejected">>
                      /\ GenerateFinally
                      /\ genOps' = Remove(genOps, i)
                      /\ UNCHANGED <<generatedImages, currentPage>>
        ELSE /\ genOps' = [genOps EXCEPT ![i].job = next]
             /\ UNCHANGED <<generatedImages, currentPage, isGenerating, errorMessage>>
  /\ inputFiles' = IF currentPage' = "upload" THEN inputFiles ELSE NoFiles
  /\ UNCHANGED <<mountedRef, mountPc, isSignUp, showLogoutConfirm, user, token,
                 authError, isLoadingAuth, authName, authEmail, authPassword,
                 userPhoto, dressPhoto, apiKey, isUploadingImage, selectedModel,
                 localStorage, authOps, readOps, cmp>>

GenComposeStep ==
  \E i \in DOMAIN genOps : \E next \in ComposeSteps(genOps[i].job) : GenComposeEvent(i, next)


(***************************************************************************)
(* Files the user can pick, and FileReader.readAsDataURL.                  *)
(***************************************************************************)
File(name, type, size, decodes, width, height) ==
  [name |-> name, type |-> type, size |-> size, decodes |-> decodes,
   width |-> width, height |-> height]

\* reader.result after a successful read of file: the file's bytes, base64-encoded
\* behind its MIME type; what they decode to is a property of the bytes.
readAsDataURL(file) ==
  DataUrl(<<"data:", file.type[1], "/", file.type[2], ";base64,", file.name>>,
          file.decodes, file.width, file.height)

FaceFile == File("face.png", <<"image", "png">>, 2048, TRUE, 8, 6)
DressFile == File("dress.jpg", <<"image", "jpeg">>, 4096, TRUE, 10, 15)
CorruptFile == File("broken.png", <<"image", "png">>, 1024, FALSE, 0, 0)

\* The photos a stored slot can hold in the initial states of SpecGenerate.
Photos == {Null, readAsDataURL(FaceFile), readAsDataURL(DressFile),
           readAsDataURL(CorruptFile)}

(***************************************************************************)
(* Texts read character by character.                                      *)
(***************************************************************************)
EmailOk == <<"a", "@", "b", ".", "c">>

\* The state right after construction: the useState initial values.
Constructed ==
  /\ mountedRef = TRUE
  /\ currentPage = "login"
  /\ isSignUp = FALSE
  /\ showLogoutConfirm = FALSE
  /\ user = Null
  /\ token = NULL
  /\ authError = NoMsg
  /\ isLoadingAuth = FALSE
  /\ authName = <<>>
  /\ authEmail = <<>>
  /\ authPassword = ""
  /\ userPhoto = Null
  /\ dressPhoto = Null
  /\ generatedImages = <<>>
  /\ apiKey = ""
  /\ isGenerating = FALSE
  /\ isUploadingImage = FALSE
  /\ errorMessage = NoMsg
  /\ selectedModel = "canvas"
  /\ authOps = <<>>
  /\ readOps = EmptyBag
  /\ inputFiles = NoFiles
  /\ genOps = <<>>
  /\ cmp = NoJob

NoStorage == [token |-> NULL, user |-> Null, api_key |-> NULL]

(***************************************************************************)
(* SpecCompose: createMergedImages called on its own with every pair of    *)
(* inputs, then driven by the image events.                                *)
(***************************************************************************)
InitCompose ==
  /\ Constructed
  /\ mountPc = "ready"
  /\ localStorage = NoStorage

ComposeCall ==
  /\ cmp = NoJob
  /\ \E u \in ComposeInputs("s"), d \in ComposeInputs("g") :
       cmp' = createMergedImages(u, d)
  /\ UNCHANGED uiVars

ComposeUserLoad ==
  /\ cmp.pc = "userDecoding" /\ cmp.u.decodes
  /\ cmp' = UserImgOnload(cmp)
  /\ UNCHANGED uiVars

ComposeUserError ==
  /\ cmp.pc = "userDecoding" /\ ~cmp.u.decodes
  /\ cmp' = UserImgOnerror(cmp)
  /\ UNCHANGED uiVars

ComposeDressLoad ==
  /\ cmp.pc = "dressDecoding" /\ cmp.d.decodes
  /\ \E baseOk, cropOk, wholeOk, encodeOk \in BOOLEAN :
       cmp' = DressImgOnload(cmp, baseOk, cropOk, wholeOk, encodeOk)
  /\ UNCHANGED uiVars

ComposeDressError ==
  /\ cmp.pc = "dressDecoding" /\ ~cmp.d.decodes
  /\ cmp' = DressImgOnerror(cmp)
  /\ UNCHANGED uiVars

NextCompose ==
  \/ ComposeCall
  \/ ComposeUserLoad
  \/ ComposeUserError
  \/ ComposeDressLoad
  \/ ComposeDressError

SpecCompose == InitCompose /\ [][NextCompose]_vars

(***************************************************************************)
(* SpecGenerate: handleGenerate called as a function, whether or not the   *)
(* generate button is enabled, from every state of a logged-in session on  *)
(* the upload page: any stored photos, credential and selected model.      *)
(***************************************************************************)
InitGenerate ==
  /\ mountedRef = TRUE
  /\ mountPc = "ready"
  /\ currentPage = "upload"
  /\ isSignUp = FALSE
  /\ showLogoutConfirm = FALSE
  /\ user = [email |-> EmailOk]
  /\ token = "t1"
  /\ authError = NoMsg
  /\ isLoadingAuth = FALSE
  /\ authName = <<>>
  /\ authEmail = <<>>
  /\ authPassword = ""
  /\ userPhoto \in Photos
  /\ dressPhoto \in Photos
  /\ generatedImages = <<>>
  /\ apiKey \in {"", "key"}
  /\ isGenerating = FALSE
  /\ isUploadingImage = FALSE
  /\ errorMessage = NoMsg
  /\ selectedModel \in ModelIds
  /\ localStorage = [token |-> "t1", user |-> [json |-> [email |-> EmailOk]],
                     api_key |-> IF apiKey = "" THEN NULL ELSE apiKey]
  /\ authOps = <<>>
  /\ readOps = EmptyBag
  /\ inputFiles = NoFiles
  /\ genOps = <<>>
  /\ cmp = NoJob

NextGenerate ==
  \/ handleGenerate
  \/ GenFetchResponse(GenResponses)
  \/ GenComposeStep

SpecGenerate == InitGenerate /\ [][NextGenerate]_vars


(***************************************************************************)
(* Validation helpers.                                                     *)
(***************************************************************************)
\* The character class [^\s@] of the e-mail pattern.
EmailChar(c) == c \notin {" ", "@"}

\* /^[^\s@]+@[^\s@]+\.[^\s@]+$/.test(email)
isValidEmail(email) ==
  \E i \in DOMAIN email : \E j \in DOMAIN email :
    /\ 1 < i /\ i + 1 < j /\ j < Len(email)
    /\ email[i] = "@" /\ email[j] = "."
    /\ \A k \in DOMAIN email : k # i => EmailChar(email[k])

\* typeof pwd === "string" && pwd.length >= 6
isValidPassword(pwd) == Len(pwd) >= MinPasswordLen

RECURSIVE TrimLeft(_)
TrimLeft(s) == IF s # <<>> /\ Head(s) = " " THEN TrimLeft(Tail(s)) ELSE s

RECURSIVE TrimRight(_)
TrimRight(s) ==
  IF s # <<>> /\ s[Len(s)] = " " THEN TrimRight(SubSeq(s, 1, Len(s) - 1)) ELSE s

\* String.prototype.trim
Trim(s) == TrimRight(TrimLeft(s))

\* JSON.stringify of a profile, and the texts JSON.parse accepts.
JSONstringify(value) == [json |-> value]
JSONparses(text) == "json" \in DOMAIN text
JSONparse(text) == text.json

(***************************************************************************)
(* Mount: the hydrate effect and the persist-apiKey effect, which runs     *)
(* once with the first render's apiKey ("") and again after the re-render  *)
(* that setApiKey caused.                                                  *)
(***************************************************************************)
\* HydrateEffect with a catch block that leaves the corrupt entry in storage.
HydrateEffectKeepsCorrupt ==
  /\ mountPc = "hydrate"
  /\ LET savedToken == localStorage.token
         savedUser == localStorage.user
         savedApiKey == localStorage.api_key
     IN /\ apiKey' = IF savedApiKey \notin {NULL, ""} THEN savedApiKey ELSE apiKey
        /\ token' = IF savedToken \notin {NULL, ""} THEN savedToken ELSE token
        /\ IF savedUser # Null /\ JSONparses(savedUser)
             THEN /\ user' = JSONparse(savedUser)
                  /\ currentPage' = "upload"
                  /\ UNCHANGED localStorage
             ELSE UNCHANGED <<user, currentPage, localStorage>>
  /\ mountPc' = "persist"
  /\ UNCHANGED <<mountedRef, isSignUp, showLogoutConfirm, authError, isLoadingAuth,
                 authName, authEmail, authPassword, userPhoto, dressPhoto,
                 generatedImages, isGenerating, isUploadingImage, errorMessage,
                 selectedModel, authOps, readOps, inputFiles, genOps, cmp>>

HydrateEffect ==
  /\ mountPc = "hydrate"
  /\ LET savedToken == localStorage.token
         savedUser == localStorage.user
         savedApiKey == localStorage.api_key
     IN /\ apiKey' = IF savedApiKey \notin {NULL, ""} THEN savedApiKey ELSE apiKey
        /\ token' = IF savedToken \notin {NULL, ""} THEN savedToken ELSE token
        /\ IF savedUser = Null
             THEN UNCHANGED <<user, currentPage, localStorage>>
           ELSE IF JSONparses(savedUser)
             THEN /\ user' = JSONparse(savedUser)
                  /\ currentPage' = "upload"
                  /\ UNCHANGED localStorage
           ELSE /\ localStorage' = [localStorage EXCEPT !.user = Null]
                /\ UNCHANGED <<user, currentPage>>
  /\ mountPc' = "persist"
  /\ UNCHANGED <<mountedRef, isSignUp, showLogoutConfirm, authError, isLoadingAuth,
                 authName, authEmail, authPassword, userPhoto, dressPhoto,
                 generatedImages, isGenerating, isUploadingImage, errorMessage,
                 selectedModel, authOps, readOps, inputFiles, genOps, cmp>>

\* The effect body for a render whose apiKey is key.
PersistApiKey(key) ==
  localStorage' = [localStorage EXCEPT !.api_key = IF key # "" THEN key ELSE NULL]

PersistEffectMount ==
  /\ mountPc = "persist"
  /\ PersistApiKey("")
  /\ mountPc' = IF apiKey # "" THEN "repersist" ELSE "ready"
  /\ UNCHANGED <<mountedRef, currentPage, isSignUp, showLogoutConfirm, user, token,
                 authError, isLoadingAuth, authName, authEmail, authPassword,
                 userPhoto, dressPhoto, generatedImages, apiKey, isGenerating,
                 isUploadingImage, errorMessage, selectedModel, authOps, readOps,
                 inputFiles,
                 genOps, cmp>>

PersistEffectRerender ==
  /\ mountPc = "repersist"
  /\ mountedRef
  /\ PersistApiKey(apiKey)
  /\ mountPc' = "ready"
  /\ UNCHANGED <<mountedRef, currentPage, isSignUp, showLogoutConfirm, user, token,
                 authError, isLoadingAuth, authName, authEmail, authPassword,
                 userPhoto, dressPhoto, generatedImages, apiKey, isGenerating,
                 isUploadingImage, errorMessage, selectedModel, authOps, readOps,
                 inputFiles,
                 genOps, cmp>>

\* The cleanup of the mountedRef effect.
Unmount ==
  /\ mountedRef
  /\ mountPc \in {"repersist", "ready"}
  /\ mountedRef' = FALSE
  /\ UNCHANGED <<mountPc, currentPage, isSignUp, showLogoutConfirm, user, token,
                 authError, isLoadingAuth, authName, authEmail, authPassword,
                 userPhoto, dressPhoto, generatedImages, apiKey, isGenerating,
                 isUploadingImage, errorMessage, selectedModel, localStorage, authOps,
                 readOps, inputFiles, genOps, cmp>>

\* The component is mounted, its effects have run and page is the page rendered.
Rendered(page) == mountedRef /\ mountPc = "ready" /\ currentPage = page

(***************************************************************************)
(* Auth form and auth requests.  An outstanding request is [kind, name,    *)
(* email, password] with the trimmed values its body carries.  A response  *)
(* is [arrived, ok, status, token, user, message]: what res.ok, res.status *)
(* and res.json().catch(() => ({})) give; an absent field is NULL or Null. *)
(***************************************************************************)
AuthResponse(arrived, ok, status, tk, usr, message) ==
  [arrived |-> arrived, ok |-> ok, status |-> status, token |-> tk, user |-> usr,
   message |-> message]

ServerUser == [name |-> <<"A", "l">>, email |-> EmailOk]

AuthResponses ==
  {AuthResponse(FALSE, FALSE, "", NULL, Null, NULL),
   AuthResponse(TRUE, TRUE, "200", "t1", ServerUser, NULL),
   AuthResponse(TRUE, TRUE, "200", "t1", Null, NULL),
   AuthResponse(TRUE, TRUE, "200", NULL, ServerUser, NULL),
   AuthResponse(TRUE, TRUE, "200", NULL, Null, NULL),
   AuthResponse(TRUE, FALSE, "401", NULL, Null, "bad credentials"),
   AuthResponse(TRUE, FALSE, "401", NULL, Null, NULL)}

\* onChange of the form's inputs: the user leaves one of values in the field.
SetAuthName(values) ==
  /\ Rendered("login") /\ isSignUp
  /\ \E v \in values : authName' = v
  /\ UNCHANGED <<mountedRef, mountPc, currentPage, isSignUp, showLogoutConfirm, user,
                 token, authError, isLoadingAuth, authEmail, authPassword, userPhoto,
                 dressPhoto, generatedImages, apiKey, isGenerating, isUploadingImage,
                 errorMessage, selectedModel, localStorage, authOps, readOps,
                 inputFiles, genOps,
                 cmp>>

SetAuthEmail(values) ==
  /\ Rendered("login")
  /\ \E v \in values : authEmail' = v
  /\ UNCHANGED <<mountedRef, mountPc, currentPage, isSignUp, showLogoutConfirm, user,
                 token, authError, isLoadingAuth, authName, authPassword, userPhoto,
                 dressPhoto, generatedImages, apiKey, isGenerating, isUploadingImage,
                 errorMessage, selectedModel, localStorage, authOps, readOps,
                 inputFiles, genOps,
                 cmp>>

SetAuthPassword(values) ==
  /\ Rendered("login")
  /\ \E v \in values : authPassword' = v
  /\ UNCHANGED <<mountedRef, mountPc, currentPage, isSignUp, showLogoutConfirm, user,
                 token, authError, isLoadingAuth, authName, authEmail, userPhoto,
                 dressPhoto, generatedImages, apiKey, isGenerating, isUploadingImage,
                 errorMessage, selectedModel, localStorage, authOps, readOps,
                 inputFiles, genOps,
                 cmp>>

\* The "Already have an account? / Don't have an account?" button.
ToggleSignUp ==
  /\ Rendered("login")
  /\ isSignUp' = ~isSignUp
  /\ authError' = NoMsg
  /\ authName' = <<>>
  /\ authEmail' = <<>>
  /\ authPassword' = ""
  /\ UNCHANGED <<mountedRef, mountPc, currentPage, showLogoutConfirm, user, token,
                 isLoadingAuth, userPhoto, dressPhoto, generatedImages, apiKey,
                 isGenerating, isUploadingImage, errorMessage, selectedModel,
                 localStorage, authOps, readOps, inputFiles, genOps, cmp>>

\* handleSignUp up to its await.
handleSignUp ==
  /\ Len(authOps) < MaxAuthOps
  /\ IF Len(Trim(authName)) < 2
       THEN /\ authError' = <<"Name must be at least 2 characters long">>
            /\ UNCHANGED <<isLoadingAuth, authOps>>
     ELSE IF ~isValidEmail(authEmail)
       THEN /\ authError' = <<"Invalid email">>
            /\ UNCHANGED <<isLoadingAuth, authOps>>
     ELSE IF ~isValidPassword(authPassword)
       THEN /\ authError' = <<"Password must be at least 6 characters">>
            /\ UNCHANGED <<isLoadingAuth, authOps>>
     ELSE /\ authError' = NoMsg
          /\ isLoadingAuth' = TRUE
          /\ authOps' = Append(authOps, [kind |-> "signup", name |-> Trim(authName),
                                         email |-> Trim(authEmail),
                                         password |-> authPassword])
  /\ UNCHANGED <<mountedRef, mountPc, currentPage, isSignUp, showLogoutConfirm, user,
                 token, authName, authEmail, authPassword, userPhoto, dressPhoto,
                 generatedImages, apiKey, isGenerating, isUploadingImage, errorMessage,
                 selectedModel, localStorage, readOps, inputFiles, genOps, cmp>>

\* handleLogin up to its await.
handleLogin ==
  /\ Len(authOps) < MaxAuthOps
  /\ IF ~isValidEmail(authEmail)
       THEN /\ authError' = <<"Enter a valid email">>
            /\ UNCHANGED <<isLoadingAuth, authOps>>
     ELSE IF authPassword = ""
       THEN /\ authError' = <<"Please enter your password">>
            /\ UNCHANGED <<isLoadingAuth, authOps>>
     ELSE /\ authError' = NoMsg
          /\ isLoadingAuth' = TRUE
          /\ authOps' = Append(authOps, [kind |-> "login", name |-> <<>>,
                                         email |-> Trim(authEmail),
                                         password |-> authPassword])
  /\ UNCHANGED <<mountedRef, mountPc, currentPage, isSignUp, showLogoutConfirm, user,
                 token, authName, authEmail, authPassword, userPhoto, dressPhoto,
                 generatedImages, apiKey, isGenerating, isUploadingImage, errorMessage,
                 selectedModel, localStorage, readOps, inputFiles, genOps, cmp>>

handleAuth == IF isSignUp THEN handleSignUp ELSE handleLogin

\* The submit button of the auth form: disabled={isLoadingAuth}.
AuthSubmitDisabled == isLoadingAuth

ClickAuth ==
  /\ Rendered("login")
  /\ ~AuthSubmitDisabled
  /\ handleAuth

\* The finally block of handleLogin and handleSignUp.
AuthFinally == isLoadingAuth' = IF mountedRef THEN FALSE ELSE isLoadingAuth

\* AuthFailureText ignoring the body of the response.
AuthFailureTextStatusOnly(op, r) ==
  <<IF op.kind = "login" THEN "Login failed" ELSE "Signup failed",
    " (status ", r.status, ")">>

\* data?.message || `Login failed (status ${res.status})` (Signup failed for signup).
AuthFailureText(op, r) ==
  IF r.message \notin {NULL, ""} THEN <<r.message>>
  ELSE <<IF op.kind = "login" THEN "Login failed" ELSE "Signup failed",
         " (status ", r.status, ")">>

\* The rest of handleLogin / handleSignUp once the fetch of request i settles with
\* response r.
AuthSettles(i, r) ==
  /\ i \in DOMAIN authOps
  /\ LET op == authOps[i]
         savedUser == IF r.user # Null THEN r.user
                      ELSE IF op.kind = "login" THEN [email |-> op.email]
                      ELSE [name |-> op.name, email |-> op.email]
     IN IF ~r.arrived
          THEN /\ authError' = IF op.kind = "login"
                                 THEN <<"Login failed. Check network or server.">>
                                 ELSE <<"Signup failed. Check network or try again.">>
               /\ UNCHANGED <<localStorage, token, user, currentPage, authName,
                              authEmail, authPassword>>
        ELSE IF ~r.ok
          THEN /\ authError' = AuthFailureText(op, r)
               /\ UNCHANGED <<localStorage, token, user, currentPage, authName,
                              authEmail, authPassword>>
        ELSE /\ localStorage' =
                  [localStorage EXCEPT
                     !.token = IF r.token \notin {NULL, ""} THEN r.token ELSE @,
                     !.user = JSONstringify(savedUser)]
             /\ token' = IF r.token \notin {NULL, ""} THEN r.token ELSE token
             /\ user' = savedUser
             /\ currentPage' = "upload"
             /\ authName' = IF op.kind = "signup" THEN <<>> ELSE authName
             /\ authEmail' = <<>>
             /\ authPassword' = ""
             /\ UNCHANGED authError
  /\ AuthFinally
  /\ authOps' = Remove(authOps, i)
  /\ UNCHANGED <<mountedRef, mountPc, isSignUp, showLogoutConfirm, userPhoto,
                 dressPhoto, generatedImages, apiKey, isGenerating, isUploadingImage,
                 errorMessage, selectedModel, readOps, inputFiles, genOps, cmp>>

\* The fetch of an outstanding request settles with one of responses.
AuthFetchResponse(responses) ==
  \E i \in DOMAIN authOps : \E r \in responses : AuthSettles(i, r)

(***************************************************************************)
(* Image upload.  An outstanding read is [type, file].                     *)
(***************************************************************************)
TextFile == File("notes.txt", <<"text", "plain">>, 512, FALSE, 0, 0)
HugeFile == File("huge.png", <<"image", "png">>, MaxImageBytes + 1, TRUE, 8, 6)
ExactFile == File("exact.png", <<"image", "png">>, MaxImageBytes, TRUE, 8, 6)
HugeTextFile == File("huge.txt", <<"text", "plain">>, MaxImageBytes + 1, FALSE, 0, 0)

\* validateImageFile rejecting a file of exactly 6 MiB too (size >= instead of >).
validateImageFileInclusive(file) ==
  IF file.type[1] # "image" THEN <<"Please upload an image file (jpg, png, etc.)">>
  ELSE IF file.size >= MaxImageBytes THEN <<"Image too large. Max 6MB.">>
  ELSE NoMsg

\* validateImageFile: the message returned, NoMsg for null.
validateImageFile(file) ==
  IF file.type[1] # "image" THEN <<"Please upload an image file (jpg, png, etc.)">>
  ELSE IF file.size > MaxImageBytes THEN <<"Image too large. Max 6MB.">>
  ELSE NoMsg

\* handleImageUpload(e, type) for the change event of a picker that holds file.
handleImageUpload(type, file) ==
  /\ BagCardinality(readOps) < MaxReadOps
  /\ IF validateImageFile(file) # NoMsg
       THEN /\ errorMessage' = validateImageFile(file)
            /\ UNCHANGED <<isUploadingImage, readOps>>
       ELSE /\ errorMessage' = NoMsg
            /\ isUploadingImage' = TRUE
            /\ readOps' = readOps (+) SetToBag({[type |-> type, file |-> file]})
  /\ inputFiles' = [inputFiles EXCEPT ![type] = file]
  /\ UNCHANGED <<mountedRef, mountPc, currentPage, isSignUp, showLogoutConfirm, user,
                 token, authError, isLoadingAuth, authName, authEmail, authPassword,
                 userPhoto, dressPhoto, generatedImages, apiKey, isGenerating,
                 selectedModel, localStorage, authOps, genOps, cmp>>

\* The user picks a file in one of the two pickers: picks is a set of <<type, file>>.
PickFile(picks) ==
  /\ Rendered("upload")
  /\ \E pick \in picks : handleImageUpload(pick[1], pick[2])

\* The change event of a picker whose dialog was cancelled: e.target.files is empty.
PickNothing ==
  /\ Rendered("upload")
  /\ errorMessage' = NoMsg
  /\ \E type \in {"user", "dress"} : inputFiles' = [inputFiles EXCEPT ![type] = Null]
  /\ UNCHANGED <<mountedRef, mountPc, currentPage, isSignUp, showLogoutConfirm, user,
                 token, authError, isLoadingAuth, authName, authEmail, authPassword,
                 userPhoto, dressPhoto, generatedImages, apiKey, isGenerating,
                 isUploadingImage, selectedModel, localStorage, authOps, readOps,
                 genOps, cmp>>

\* ReaderOnloadend storing the result in one slot and clearing the other.
ReaderOnloadendClearsOther(type, dataUrl) ==
  IF ~mountedRef
    THEN UNCHANGED <<userPhoto, dressPhoto, isUploadingImage>>
    ELSE /\ userPhoto' = IF type = "user" THEN dataUrl ELSE Null
         /\ dressPhoto' = IF type = "user" THEN Null ELSE dataUrl
         /\ isUploadingImage' = FALSE

\* reader.onloadend with reader.result = dataUrl (null after a failed read).
ReaderOnloadend(type, dataUrl) ==
  IF ~mountedRef
    THEN UNCHANGED <<userPhoto, dressPhoto, isUploadingImage>>
    ELSE /\ userPhoto' = IF type = "user" THEN dataUrl ELSE userPhoto
         /\ dressPhoto' = IF type = "user" THEN dressPhoto ELSE dataUrl
         /\ isUploadingImage' = FALSE

\* The read op succeeds: the loadend event.
ReadLoads(op) ==
  /\ BagIn(op, readOps)
  /\ ReaderOnloadend(op.type, readAsDataURL(op.file))
  /\ readOps' = readOps (-) SetToBag({op})
  /\ UNCHANGED <<mountedRef, mountPc, currentPage, isSignUp, showLogoutConfirm, user,
                 token, authError, isLoadingAuth, authName, authEmail, authPassword,
                 generatedImages, apiKey, isGenerating, errorMessage, selectedModel,
                 localStorage, authOps, inputFiles, genOps, cmp>>

\* The read op fails: the error event (reader.onerror), then the loadend event with a
\* null result.
ReadFails(op) ==
  /\ BagIn(op, readOps)
  /\ errorMessage' = <<"Failed to read image file.">>
  /\ IF ~mountedRef
       THEN isUploadingImage' = FALSE /\ UNCHANGED <<userPhoto, dressPhoto>>
       ELSE ReaderOnloadend(op.type, Null)
  /\ readOps' = readOps (-) SetToBag({op})
  /\ UNCHANGED <<mountedRef, mountPc, currentPage, isSignUp, showLogoutConfirm, user,
                 token, authError, isLoadingAuth, authName, authEmail, authPassword,
                 generatedImages, apiKey, isGenerating, selectedModel, localStorage,
                 authOps, inputFiles, genOps, cmp>>

ReadLoadEnd == \E op \in BagToSet(readOps) : ReadLoads(op)

ReadError == \E op \in BagToSet(readOps) : ReadFails(op)

(***************************************************************************)
(* Upload and results pages.                                               *)
(***************************************************************************)
\* A click on an entry of the model dropdown.
SelectModel(ids) ==
  /\ Rendered("upload")
  /\ \E id \in ids : selectedModel' = id
  /\ UNCHANGED <<mountedRef, mountPc, currentPage, isSignUp, showLogoutConfirm, user,
                 token, authError, isLoadingAuth, authName, authEmail, authPassword,
                 userPhoto, dressPhoto, generatedImages, apiKey, isGenerating,
                 isUploadingImage, errorMessage, localStorage, authOps, readOps,
                 inputFiles,
                 genOps, cmp>>

\* onChange of the API key input (rendered for a model that needs a credential),
\* with the persist-apiKey effect of the re-render.
SetApiKey ==
  /\ Rendered("upload")
  /\ currentModelData.needsApi
  /\ \E v \in {"", "key"} : apiKey' = v /\ PersistApiKey(v)
  /\ UNCHANGED <<mountedRef, mountPc, currentPage, isSignUp, showLogoutConfirm, user,
                 token, authError, isLoadingAuth, authName, authEmail, authPassword,
                 userPhoto, dressPhoto, generatedImages, isGenerating,
                 isUploadingImage, errorMessage, selectedModel, authOps, readOps,
                 inputFiles,
                 genOps, cmp>>

\* GenerateDisabled without the isGenerating test.
GenerateDisabledInputsOnly ==
  userPhoto = Null \/ dressPhoto = Null \/ (currentModelData.needsApi /\ apiKey = "")

\* The generate button: disabled={isGenerating || !userPhoto || !dressPhoto ||
\* (currentModelData?.needsApi && !apiKey)}.
GenerateDisabled ==
  isGenerating \/ userPhoto = Null \/ dressPhoto = Null
    \/ (currentModelData.needsApi /\ apiKey = "")

ClickGenerate ==
  /\ Rendered("upload")
  /\ ~GenerateDisabled
  /\ handleGenerate

\* handleReset clearing the photos and the result without changing the page.
handleResetKeepsPage ==
  /\ Rendered("results")
  /\ userPhoto' = Null
  /\ dressPhoto' = Null
  /\ generatedImages' = <<>>
  /\ errorMessage' = NoMsg
  /\ UNCHANGED <<mountedRef, mountPc, currentPage, isSignUp, showLogoutConfirm, user,
                 token, authError, isLoadingAuth, authName, authEmail, authPassword,
                 apiKey, isGenerating, isUploadingImage, selectedModel, localStorage,
                 authOps, readOps, inputFiles, genOps, cmp>>

handleReset ==
  /\ Rendered("results")
  /\ userPhoto' = Null
  /\ dressPhoto' = Null
  /\ generatedImages' = <<>>
  /\ errorMessage' = NoMsg
  /\ currentPage' = "upload"
  /\ UNCHANGED <<mountedRef, mountPc, isSignUp, showLogoutConfirm, user, token,
                 authError, isLoadingAuth, authName, authEmail, authPassword, apiKey,
                 isGenerating, isUploadingImage, selectedModel, localStorage, authOps,
                 readOps, inputFiles, genOps, cmp>>

handleLogout ==
  /\ Rendered("upload") \/ Rendered("results")
  /\ showLogoutConfirm' = TRUE
  /\ UNCHANGED <<mountedRef, mountPc, currentPage, isSignUp, user, token, authError,
                 isLoadingAuth, authName, authEmail, authPassword, userPhoto,
                 dressPhoto, generatedImages, apiKey, isGenerating, isUploadingImage,
                 errorMessage, selectedModel, localStorage, authOps, readOps,
                 inputFiles, genOps,
                 cmp>>

\* confirmLogout clearing the session in memory only.
confirmLogoutKeepsStorage ==
  /\ Rendered("upload") \/ Rendered("results")
  /\ showLogoutConfirm
  /\ user' = Null
  /\ token' = NULL
  /\ userPhoto' = Null
  /\ dressPhoto' = Null
  /\ generatedImages' = <<>>
  /\ showLogoutConfirm' = FALSE
  /\ currentPage' = "login"
  /\ inputFiles' = NoFiles
  /\ UNCHANGED <<mountedRef, mountPc, isSignUp, authError, isLoadingAuth, authName,
                 authEmail, authPassword, apiKey, isGenerating, isUploadingImage,
                 errorMessage, selectedModel, localStorage, authOps, readOps, genOps,
                 cmp>>

\* confirmLogout clearing the credential with the session.
confirmLogoutClearsKey ==
  /\ Rendered("upload") \/ Rendered("results")
  /\ showLogoutConfirm
  /\ user' = Null
  /\ token' = NULL
  /\ apiKey' = ""
  /\ localStorage' = [localStorage EXCEPT !.token = NULL, !.user = Null,
                                          !.api_key = NULL]
  /\ userPhoto' = Null
  /\ dressPhoto' = Null
  /\ generatedImages' = <<>>
  /\ showLogoutConfirm' = FALSE
  /\ currentPage' = "login"
  /\ inputFiles' = NoFiles
  /\ UNCHANGED <<mountedRef, mountPc, isSignUp, authError, isLoadingAuth, authName,
                 authEmail, authPassword, isGenerating, isUploadingImage,
                 errorMessage, selectedModel, authOps, readOps, genOps, cmp>>

confirmLogout ==
  /\ Rendered("upload") \/ Rendered("results")
  /\ showLogoutConfirm
  /\ user' = Null
  /\ token' = NULL
  /\ localStorage' = [localStorage EXCEPT !.token = NULL, !.user = Null]
  /\ userPhoto' = Null
  /\ dressPhoto' = Null
  /\ generatedImages' = <<>>
  /\ showLogoutConfirm' = FALSE
  /\ currentPage' = "login"
  /\ inputFiles' = NoFiles
  /\ UNCHANGED <<mountedRef, mountPc, isSignUp, authError, isLoadingAuth, authName,
                 authEmail, authPassword, apiKey, isGenerating, isUploadingImage,
                 errorMessage, selectedModel, authOps, readOps, genOps, cmp>>

cancelLogout ==
  /\ Rendered("upload") \/ Rendered("results")
  /\ showLogoutConfirm
  /\ showLogoutConfirm' = FALSE
  /\ UNCHANGED <<mountedRef, mountPc, currentPage, isSignUp, user, token, authError,
                 isLoadingAuth, authName, authEmail, authPassword, userPhoto,
                 dressPhoto, generatedImages, apiKey, isGenerating, isUploadingImage,
                 errorMessage, selectedModel, localStorage, authOps, readOps,
                 inputFiles, genOps,
                 cmp>>

(***************************************************************************)
(* What the environment supplies: texts typed into the auth form, files    *)
(* picked, server responses.                                               *)
(***************************************************************************)
EmailNoDot == <<"a", "@", "b">>
EmailPadded == <<" ", "a", "@", "b", ".", "c">>

NameInputs == {<<>>, <<"A", "l">>}
EmailInputs == {<<>>, EmailOk}
PasswordInputs == {"", "short", "secret1"}

\* Every persisted state the component can be constructed over.
StoredStates ==
  [token : {NULL, "t0"},
   user : {Null, JSONstringify([email |-> EmailOk]), [garbage |-> TRUE]},
   api_key : {NULL, "key"}]

(***************************************************************************)
(* Spec: the component from construction over any persisted state, driven  *)
(* through its rendered controls across sessions: log in or sign up, pick  *)
(* photos, generate, reset, log out.  It stays mounted.  The form takes a  *)
(* well-formed password, the server answers with a network failure, a 401  *)
(* or a complete 200, and the pickers take one image each.                 *)
(***************************************************************************)
MaxSessionReads == 1   \* reads outstanding at once in a session of Spec

SessionPasswords == {"", "secret1"}

SessionAuthResponses ==
  {AuthResponse(FALSE, FALSE, "", NULL, Null, NULL),
   AuthResponse(TRUE, TRUE, "200", "t1", ServerUser, NULL),
   AuthResponse(TRUE, FALSE, "401", NULL, Null, "bad credentials")}

SessionGenResponses ==
  {Response(FALSE, FALSE, "", ""), Response(TRUE, TRUE, "200", "output_url")}

SessionModels == {"canvas", "nanobanana"}

SessionPicks == {<<"user", FaceFile>>, <<"dress", DressFile>>}

Init ==
  /\ Constructed
  /\ mountPc = "hydrate"
  /\ localStorage \in StoredStates

SessionPickFile ==
  /\ BagCardinality(readOps) < MaxSessionReads
  /\ PickFile(SessionPicks)

Next ==
  \/ HydrateEffect
  \/ PersistEffectMount
  \/ PersistEffectRerender
  \/ SetAuthName(NameInputs)
  \/ SetAuthEmail(EmailInputs)
  \/ SetAuthPassword(SessionPasswords)
  \/ ToggleSignUp
  \/ ClickAuth
  \/ AuthFetchResponse(SessionAuthResponses)
  \/ SessionPickFile
  \/ PickNothing
  \/ ReadLoadEnd
  \/ ReadError
  \/ SelectModel(SessionModels)
  \/ SetApiKey
  \/ ClickGenerate
  \/ GenFetchResponse(SessionGenResponses)
  \/ GenComposeStep
  \/ handleReset
  \/ handleLogout
  \/ confirmLogout
  \/ cancelLogout

Spec == Init /\ [][Next]_vars

(***************************************************************************)
(* SpecAuth: the session half of the component on its own: hydration over  *)
(* any persisted state, the auth form with every kind of input, every kind *)
(* of server response, the credential input and logout.                    *)
(***************************************************************************)
NextAuth ==
  \/ HydrateEffect
  \/ PersistEffectMount
  \/ PersistEffectRerender
  \/ SetAuthName(NameInputs)
  \/ SetAuthEmail(EmailInputs \cup {EmailNoDot, EmailPadded})
  \/ SetAuthPassword(PasswordInputs)
  \/ ToggleSignUp
  \/ ClickAuth
  \/ AuthFetchResponse(AuthResponses)
  \/ SelectModel(SessionModels)
  \/ SetApiKey
  \/ handleLogout
  \/ confirmLogout
  \/ cancelLogout

SpecAuth == Init /\ [][NextAuth]_vars

\* SpecAuth started over a persisted user-profile entry that JSON.parse rejects.
InitCorruptProfile ==
  /\ Init
  /\ localStorage.user # Null /\ ~JSONparses(localStorage.user)

SpecCorruptProfile == InitCorruptProfile /\ [][NextAuth]_vars

(***************************************************************************)
(* SpecTeardown: one session in which the component can be unmounted at    *)
(* any moment after its mount effects, with a login request, file reads    *)
(* and generate calls outstanding or not.                                  *)
(***************************************************************************)
InitTeardown ==
  /\ Constructed
  /\ mountPc = "hydrate"
  /\ localStorage \in {NoStorage,
                       [token |-> "t0", user |-> JSONstringify([email |-> EmailOk]),
                        api_key |-> "key"]}

NextTeardown ==
  \/ HydrateEffect
  \/ PersistEffectMount
  \/ PersistEffectRerender
  \/ Unmount
  \/ SetAuthEmail({EmailOk})
  \/ SetAuthPassword({"secret1"})
  \/ ClickAuth
  \/ AuthFetchResponse(SessionAuthResponses)
  \/ PickFile(SessionPicks)
  \/ ReadLoadEnd
  \/ ReadError
  \/ SelectModel(SessionModels)
  \/ ClickGenerate
  \/ GenFetchResponse(SessionGenResponses)
  \/ GenComposeStep

SpecTeardown == InitTeardown /\ [][NextTeardown]_vars

(***************************************************************************)
(* SpecUpload: the two file pickers of the upload page of a logged-in      *)
(* session, with every kind of file and reads that overlap.                *)
(***************************************************************************)
UploadPicks ==
  {"user", "dress"}
    \X {FaceFile, DressFile, CorruptFile, TextFile, HugeFile, ExactFile, HugeTextFile}

InitUpload ==
  /\ InitGenerate
  /\ userPhoto = Null /\ dressPhoto = Null
  /\ apiKey = "" /\ selectedModel = "canvas"

NextUpload ==
  \/ PickFile(UploadPicks)
  \/ PickNothing
  \/ ReadLoadEnd
  \/ ReadError

SpecUpload == InitUpload /\ [][NextUpload]_vars

\* SpecUpload in which every read succeeds.
NextUploadLoads ==
  \/ PickFile(UploadPicks)
  \/ PickNothing
  \/ ReadLoadEnd

SpecUploadLoads == InitUpload /\ [][NextUploadLoads]_vars

(***************************************************************************)
(* Properties.                                                             *)
(***************************************************************************)
AdapterFails(op, r) ==
  IF op.model = "nanobanana" THEN callNanoBanana(r).threw ELSE callDeepAI(r).threw

AdapterErrorTexts ==
  {"Failed to fetch", "Unexpected token", "NanoBanana API failed (500)",
   "NanoBanana returned no image URL", "DeepAI failed (500)", "DeepAI returned no image"}

\* C1: handleGenerate called with both photos, a model whose descriptor has
\* needsApi = true and an empty credential sets the "API key required" message and
\* nothing else: no call record (so no request and no compositor run) is created,
\* and isGenerating, generatedImages and the page keep their values.
C1_MissingCredentialRejected ==
  [][(/\ handleGenerate
      /\ userPhoto # Null /\ dressPhoto # Null
      /\ currentModelData.needsApi /\ apiKey = "")
     => (/\ errorMessage' = <<"API key required for ", currentModelData.name>>
         /\ genOps' = genOps
         /\ isGenerating' = isGenerating
         /\ generatedImages' = generatedImages
         /\ currentPage' = currentPage)]_vars

C1_Witness ==
  /\ userPhoto # Null /\ dressPhoto # Null
  /\ currentModelData.needsApi /\ apiKey = ""
  /\ errorMessage = <<"API key required for ", currentModelData.name>>
  /\ genOps = <<>> /\ ~isGenerating /\ generatedImages = <<>>

\* C2 as stated: a call whose adapter failed ends with a result tagged canvas in
\* generatedImages, the page results and the adapter's error text in errorMessage.
C2_FallbackAlwaysCanvas ==
  [][\A i \in DOMAIN genOps :
       (/\ genOps[i].phase = "fallback"
        /\ \E next \in ComposeSteps(genOps[i].job) :
             next.pc = "resolved" /\ GenComposeEvent(i, next))
       => (/\ Len(generatedImages') = 1
           /\ generatedImages'[1].source = "canvas"
           /\ currentPage' = "results"
           /\ errorMessage' # NoMsg /\ errorMessage'[1] \in AdapterErrorTexts)]_vars

\* C2 amended: a failing adapter makes handleGenerate put the adapter's error text
\* in errorMessage and run the compositor as fallback (it does not end the call);
\* when the fallback compositor resolves, its single result is stored in
\* generatedImages (tagged canvas if both photos decode, original otherwise), the
\* page becomes results and errorMessage is left as it is.
C2_FallbackStoresCompositorResult ==
  [][\A i \in DOMAIN genOps :
       /\ \A r \in GenResponses :
            (GenFetchSettles(i, r) /\ AdapterFails(genOps[i], r))
            => (/\ Len(errorMessage') = 2 /\ errorMessage'[1] \in AdapterErrorTexts
                /\ Len(genOps') = Len(genOps)
                /\ genOps'[i].phase = "fallback" /\ genOps'[i].pc = "compose"
                /\ generatedImages' = generatedImages /\ currentPage' = currentPage)
       /\ (/\ genOps[i].phase = "fallback"
           /\ \E next \in ComposeSteps(genOps[i].job) :
                next.pc = "resolved" /\ GenComposeEvent(i, next))
          => (/\ Len(generatedImages') = 1
              /\ generatedImages'[1].source =
                   IF genOps[i].u.decodes /\ genOps[i].d.decodes
                     THEN "canvas" ELSE "original"
              /\ currentPage' = "results"
              /\ errorMessage' = errorMessage)]_vars

C2_Witness ==
  /\ genOps = <<>>
  /\ Len(generatedImages) = 1 /\ generatedImages[1].source = "canvas"
  /\ currentPage = "results"
  /\ errorMessage = <<"NanoBanana API failed (500)", " - falling back to canvas merge...">>

\* C3: createMergedImages never rejects, is never left pending with no handler
\* that could still settle it, and resolves with exactly one result entry.
C3_ComposeNeverFailsOutward ==
  /\ cmp.pc \notin {"threw", "rejected"}
  /\ cmp.pc = "resolved" => Len(cmp.result) = 1

\* C4: every call for a model other than canvas makes one outbound request before
\* any compositor run, and a succeeding adapter's result carries the source tag of
\* the selected provider.
C4_EveryRemoteModelCallsAdapter ==
  [][/\ \A i \in DOMAIN genOps' :
          genOps'[i].model # "canvas" => genOps'[i].log[1] = "fetch"
     /\ \A i \in DOMAIN genOps : \A r \in GenResponses :
          (GenFetchSettles(i, r) /\ ~AdapterFails(genOps[i], r))
          => generatedImages'[1].source = genOps[i].model]_vars

\* C5: a handleGenerate call with the model canvas never makes an outbound
\* request, whatever the credential: it never awaits a fetch and its log holds no
\* "fetch".
C5_CanvasNeverFetches ==
  \A i \in DOMAIN genOps :
    genOps[i].model = "canvas"
    => /\ genOps[i].pc # "fetch"
       /\ \A k \in DOMAIN genOps[i].log : genOps[i].log[k] # "fetch"

C5_Witness ==
  \E i \in DOMAIN genOps :
    /\ genOps[i].model = "canvas" /\ genOps[i].key = "key"
    /\ genOps[i].job.pc = "threw"

\* C6: one call makes at most one outbound request and runs the compositor as a
\* fallback at most once, only after its request: its log is <<"fetch">> or
\* <<"compose">> in the try block and <<"fetch", "compose">> in the catch block; a
\* succeeding adapter ends the call without a fallback.
C6_OneAttemptOneFallback ==
  [][/\ \A i \in DOMAIN genOps' :
          IF genOps'[i].phase = "first"
            THEN genOps'[i].log \in {<<"fetch">>, <<"compose">>}
            ELSE genOps'[i].log = <<"fetch", "compose">> /\ genOps'[i].pc = "compose"
     /\ \A i \in DOMAIN genOps : \A r \in GenResponses :
          (GenFetchSettles(i, r) /\ ~AdapterFails(genOps[i], r))
          => genOps' = Remove(genOps, i)]_vars

C6_Witness ==
  \E i \in DOMAIN genOps :
    /\ genOps[i].phase = "fallback"
    /\ genOps[i].log = <<"fetch", "compose">>
    /\ genOps[i].job.pc = "threw"

\* C7 as stated: whenever the garment data does not decode, the call resolves with
\* the subject data tagged original, whatever the subject does.
C7_GarmentFailureReturnsSubject ==
  (cmp.pc = "resolved" /\ ~cmp.d.decodes)
  => cmp.result = <<[id |-> 1, url |-> cmp.u, quality |-> "Original",
                     source |-> "original"]>>

\* C7 amended: whenever the subject decodes and the garment does not, the call
\* never throws and resolves with exactly the subject data tagged original; when
\* the subject does not decode, the garment decode is never started and the call
\* resolves with the garment data tagged original.
C7_GarmentFailureAfterSubjectDecodes ==
  /\ (cmp.pc # "none" /\ cmp.u.decodes /\ ~cmp.d.decodes)
     => /\ cmp.pc \in {"userDecoding", "dressDecoding", "resolved"}
        /\ cmp.pc = "resolved"
           => cmp.result = <<[id |-> 1, url |-> cmp.u, quality |-> "Original",
                              source |-> "original"]>>
  /\ (cmp.pc # "none" /\ ~cmp.u.decodes)
     => /\ cmp.pc \in {"userDecoding", "resolved"}
        /\ cmp.pc = "resolved"
           => cmp.result = <<[id |-> 1, url |-> cmp.d, quality |-> "Original",
                              source |-> "original"]>>

C7_Witness ==
  /\ cmp.pc = "resolved" /\ cmp.u.decodes /\ ~cmp.d.decodes
  /\ cmp.result[1].url = cmp.u

\* C8: handleLogin with a well-formed email and a non-empty password shorter than
\* six characters issues no request and sets an error message.
C8_ShortPasswordRejected ==
  [][(/\ handleLogin
      /\ isValidEmail(authEmail)
      /\ authPassword # "" /\ ~isValidPassword(authPassword))
     => (/\ authOps' = authOps
         /\ authError' # NoMsg
         /\ isLoadingAuth' = isLoadingAuth)]_vars

\* C9: once the component is unmounted, the completion of an outstanding request,
\* file read or generate call applies none of its results.  Stated for the part of
\* the results that outlives the component: no entry of persistent storage is
\* written while the component is unmounted.
C9_ResultsDiscardedAfterUnmount ==
  [][~mountedRef => localStorage' = localStorage]_vars

\* C10: at most one auth request and at most one handleGenerate call are
\* outstanding, and while one is its submit control is disabled.
C10_OneAuthOneGenerate ==
  /\ Len(authOps) <= 1
  /\ Len(genOps) <= 1
  /\ authOps # <<>> => AuthSubmitDisabled
  /\ genOps # <<>> => GenerateDisabled

\* A generate call started in an earlier session is still outstanding on the upload
\* page of the session a later login opened: the logout in between emptied the
\* photos the call captured.
C10_Witness ==
  /\ Rendered("upload")
  /\ user # Null /\ token = "t1"
  /\ Len(genOps) = 1 /\ genOps[1].u # Null
  /\ userPhoto = Null /\ dressPhoto = Null
  /\ isGenerating /\ GenerateDisabled

\* C11: at most one file read is outstanding: while a read started by
\* handleImageUpload is in flight, neither picker starts a second one.
C11_OneReadOutstanding == BagCardinality(readOps) <= 1

\* C12: handleImageUpload rejects a file whose type is not image/* with the type
\* message and, checked second, a file larger than 6 MiB with the size message; a
\* rejection starts no read and leaves both photos and isUploadingImage as they
\* are; an image of at most 6 MiB (exactly 6 MiB included) starts a read.
C12_InvalidFileRejected ==
  [][\A pick \in UploadPicks :
       handleImageUpload(pick[1], pick[2])
       => IF pick[2].type[1] # "image"
            THEN /\ errorMessage' = <<"Please upload an image file (jpg, png, etc.)">>
                 /\ readOps' = readOps
                 /\ UNCHANGED <<userPhoto, dressPhoto, isUploadingImage>>
          ELSE IF pick[2].size > MaxImageBytes
            THEN /\ errorMessage' = <<"Image too large. Max 6MB.">>
                 /\ readOps' = readOps
                 /\ UNCHANGED <<userPhoto, dressPhoto, isUploadingImage>>
          ELSE /\ readOps' = readOps (+) SetToBag({[type |-> pick[1], file |-> pick[2]]})
               /\ isUploadingImage'
               /\ errorMessage' = NoMsg]_vars

\* A file of exactly 6 MiB was read into the subject slot, and a larger one was then
\* rejected while nothing was being read.
C12_Witness ==
  /\ userPhoto = readAsDataURL(ExactFile)
  /\ errorMessage = <<"Image too large. Max 6MB.">>
  /\ readOps = EmptyBag /\ ~isUploadingImage

\* C13: when a login or signup request is answered with a non-2xx status,
\* authError becomes exactly the message of the body when it carries one and
\* otherwise the generic failure text with the status code; token, user,
\* persistent storage, the page and the form are unchanged, and the request is
\* over without another being issued.
C13_AuthErrorTerminal ==
  [][\A i \in DOMAIN authOps : \A r \in AuthResponses :
       (AuthSettles(i, r) /\ r.arrived /\ ~r.ok)
       => /\ authError' =
               IF r.message # NULL THEN <<r.message>>
               ELSE <<IF authOps[i].kind = "login" THEN "Login failed"
                      ELSE "Signup failed", " (status ", r.status, ")">>
          /\ UNCHANGED <<token, user, localStorage, currentPage, authName, authEmail,
                         authPassword>>
          /\ authOps' = <<>>
          /\ ~isLoadingAuth']_vars

\* A 401 carrying {message: "bad credentials"} has been reported on the login page.
C13_Witness ==
  /\ authError = <<"bad credentials">>
  /\ authOps = <<>> /\ ~isLoadingAuth
  /\ currentPage = "login" /\ user = Null /\ token = NULL
  /\ localStorage.token = NULL /\ localStorage.user = Null

\* C14: the hydrate effect over a persisted user-profile entry that does not parse
\* does not fail: user stays null and the page stays login, the corrupt entry is
\* removed from persistent storage, and the persisted token and credential are
\* loaded into token and apiKey (their entries are not touched).
C14_CorruptProfileTolerated ==
  [][(/\ HydrateEffect
      /\ localStorage.user # Null /\ ~JSONparses(localStorage.user))
     => /\ user' = Null /\ currentPage' = "login"
        /\ localStorage' = [localStorage EXCEPT !.user = Null]
        /\ token' = localStorage.token
        /\ apiKey' = IF localStorage.api_key = NULL THEN "" ELSE localStorage.api_key
        /\ mountPc' = "persist"]_vars

\* Hydration has run over a corrupt profile stored beside a token and a credential.
C14_Witness ==
  /\ mountPc = "persist"
  /\ user = Null /\ currentPage = "login"
  /\ localStorage.user = Null
  /\ token = "t0" /\ localStorage.token = "t0"
  /\ apiKey = "key" /\ localStorage.api_key = "key"

\* C15: after a 2xx response to a login or signup request the session holds a
\* token and a user profile, in memory and in persistent storage, and the page is
\* upload.
C15_SuccessSetsTokenAndProfile ==
  [][\A i \in DOMAIN authOps : \A r \in AuthResponses :
       (AuthSettles(i, r) /\ r.arrived /\ r.ok)
       => /\ token' # NULL /\ localStorage'.token = token'
          /\ user' # Null /\ localStorage'.user = JSONstringify(user')
          /\ currentPage' = "upload"]_vars

\* C16: confirmLogout clears token and user in memory and in persistent storage
\* and switches the page to login; handleLogout alone and cancelLogout change none
\* of token, user, storage and page.
C16_LogoutClearsSession ==
  [][/\ confirmLogout
        => /\ user' = Null /\ token' = NULL
           /\ localStorage'.user = Null /\ localStorage'.token = NULL
           /\ currentPage' = "login"
     /\ (handleLogout \/ cancelLogout)
        => UNCHANGED <<token, user, localStorage, currentPage>>]_vars

\* Back on the login page after a confirmed logout: a model was selected on the
\* upload page, and no session is left in memory or in storage.
C16_Witness ==
  /\ currentPage = "login" /\ selectedModel = "nanobanana"
  /\ ~showLogoutConfirm
  /\ user = Null /\ token = NULL
  /\ localStorage.user = Null /\ localStorage.token = NULL
  /\ apiKey = ""

\* C17: confirmLogout changes neither apiKey nor the persisted credential entry,
\* and neither does the login or signup that follows: the credential present
\* before a logout is present after it and after the next login.
C17_CredentialOutlivesLogout ==
  [][/\ confirmLogout
        => apiKey' = apiKey /\ localStorage'.api_key = localStorage.api_key
     /\ \A i \in DOMAIN authOps : \A r \in AuthResponses :
          AuthSettles(i, r)
          => apiKey' = apiKey /\ localStorage'.api_key = localStorage.api_key]_vars

\* Logged out with the credential typed on the upload page still in memory and in
\* storage.
C17_Witness ==
  /\ currentPage = "login" /\ selectedModel = "nanobanana"
  /\ user = Null /\ token = NULL /\ localStorage.user = Null
  /\ apiKey = "key" /\ localStorage.api_key = "key"

\* C18: whenever both images decode, the canvas of createMergedImages has exactly
\* the garment's decoded width and height, whatever the subject's dimensions, and
\* so has the image it encodes.
C18_CanvasHasGarmentSize ==
  (cmp.pc \in {"resolved", "threw"} /\ cmp.u.decodes /\ cmp.d.decodes)
  => /\ cmp.canvas = <<cmp.d.width, cmp.d.height>>
     /\ cmp.pc = "resolved"
        => /\ cmp.result[1].url.width = cmp.d.width
           /\ cmp.result[1].url.height = cmp.d.height

\* A composition of a subject and a garment that differ in width and in height.
C18_Witness ==
  /\ cmp.pc = "resolved" /\ cmp.u.decodes /\ cmp.d.decodes
  /\ cmp.u.width > cmp.d.width /\ cmp.u.height < cmp.d.height
  /\ cmp.result[1].source = "canvas"
  /\ cmp.canvas = <<cmp.d.width, cmp.d.height>>

\* r is n / d rounded to the nearest integer, halves upwards: r <= n/d + 1/2 < r + 1.
IsRounded(r, n, d) == 2 * d * r <= 2 * n + d /\ 2 * n + d < 2 * d * (r + 1)

\* C19: for a canvas of W x H and a subject of w x h the composition uses the
\* destination region width = round(0.25 W), height = round(1.2 width),
\* x = round((W - width) / 2), y = round(0.08 H) and, for the clipped draw, the
\* source crop x = round(0.25 w), y = round(0.1 h), width = round(0.5 w),
\* height = round(0.4 h); for a subject of 800 x 600 and a garment of 1000 x 1500
\* these are (375, 120, 250, 300) and (200, 60, 400, 240).
C19_RegionsAsRounded ==
  (cmp.pc = "resolved" /\ cmp.u.decodes /\ cmp.d.decodes)
  => LET url == cmp.result[1].url
         W == cmp.canvas[1]
         H == cmp.canvas[2]
     IN /\ IsRounded(url.dst[3], 25 * W, 100)
        /\ IsRounded(url.dst[4], 12 * url.dst[3], 10)
        /\ IsRounded(url.dst[1], W - url.dst[3], 2)
        /\ IsRounded(url.dst[2], 8 * H, 100)
        /\ url.drawn = "crop"
           => /\ IsRounded(url.src[1], 25 * cmp.u.width, 100)
              /\ IsRounded(url.src[2], 10 * cmp.u.height, 100)
              /\ IsRounded(url.src[3], 50 * cmp.u.width, 100)
              /\ IsRounded(url.src[4], 40 * cmp.u.height, 100)
        /\ (/\ cmp.u.width = 800 /\ cmp.u.height = 600
            /\ cmp.d.width = 1000 /\ cmp.d.height = 1500)
           => /\ url.dst = <<375, 120, 250, 300>>
              /\ url.drawn = "crop" => url.src = <<200, 60, 400, 240>>

\* The composition of the 800 x 600 subject onto the 1000 x 1500 garment, clipped.
C19_Witness ==
  /\ cmp.pc = "resolved"
  /\ cmp.u.width = 800 /\ cmp.u.height = 600
  /\ cmp.d.width = 1000 /\ cmp.d.height = 1500
  /\ cmp.result[1].url.drawn = "crop"
  /\ cmp.result[1].url.dst = <<375, 120, 250, 300>>
  /\ cmp.result[1].url.src = <<200, 60, 400, 240>>

\* C20: in createMergedImages the garment decode is started only after the subject
\* decode has completed successfully: the two decodes are never in progress at
\* the same time, and if the subject decode fails the garment decode is never
\* started.
C20_GarmentDecodeChained ==
  cmp.pc # "none"
  => /\ cmp.dressImg # "unset" => cmp.userImg = "loaded"
     /\ ~(cmp.userImg = "decoding" /\ cmp.dressImg = "decoding")
     /\ cmp.userImg = "failed" => cmp.dressImg = "unset"

\* The garment decode in progress, the subject decode having completed.
C20_Witness ==
  /\ cmp.pc = "dressDecoding"
  /\ cmp.userImg = "loaded"
  /\ cmp.dressImg = "decoding"

\* C21: subject and garment ingestion are independent.  The completion of a subject
\* read leaves the stored garment photo as it is and the completion of a garment
\* read leaves the stored subject photo as it is; the slot a completion writes
\* receives that read's own result, which depends neither on the other slot nor on
\* what completed before, so one subject read and one garment read end in the
\* same pair of stored photos in either order of completion.
C21_IngestionsIndependent ==
  [][\A op \in BagToSet(readOps) :
       /\ ReadLoads(op)
          => /\ op.type = "user"
                => userPhoto' = readAsDataURL(op.file) /\ dressPhoto' = dressPhoto
             /\ op.type = "dress"
                => dressPhoto' = readAsDataURL(op.file) /\ userPhoto' = userPhoto
       /\ ReadFails(op)
          => /\ op.type = "user" => userPhoto' = Null /\ dressPhoto' = dressPhoto
             /\ op.type = "dress" => dressPhoto' = Null /\ userPhoto' = userPhoto]_vars

\* Both reads done, one per slot, each slot holding its own file.
C21_Witness ==
  /\ readOps = EmptyBag
  /\ userPhoto = readAsDataURL(FaceFile)
  /\ dressPhoto = readAsDataURL(DressFile)
  /\ ~isUploadingImage

\* C22: in every reachable state the upload page or the results page is the
\* current page only when a user profile is present, for every interleaving of
\* logout with the completions of generate calls and file reads in flight.
C22_PagesNeedUser ==
  currentPage \in {"upload", "results"} => user # Null

\* C23: after confirmLogout the stored subject photo, garment photo and generated
\* result stay empty until a file pick or a generate call is initiated after that
\* logout: as long as the login page is the current page, where neither can be
\* initiated, the three are empty, whatever read or generate call started before
\* the logout completes.
C23_LogoutStaysClean ==
  currentPage = "login"
  => userPhoto = Null /\ dressPhoto = Null /\ generatedImages = <<>>

\* C24: a file read started by handleImageUpload that fails (the FileReader's error
\* event followed by its loadend event) leaves the photo stored for its slot, and
\* the photo of the other slot, as they were, sets an error message and leaves
\* isUploadingImage false.
C24_FailedReadKeepsPhoto ==
  [][\A op \in BagToSet(readOps) :
       ReadFails(op)
       => /\ userPhoto' = userPhoto
          /\ dressPhoto' = dressPhoto
          /\ errorMessage' # NoMsg
          /\ ~isUploadingImage']_vars

\* C25: once the hydrate effect has run, in every reachable state the auth token in
\* memory equals the persisted stitchpix_token entry and the user profile in memory
\* equals the parsed persisted stitchpix_user entry (both absent, or both present
\* and equal), across logins, signups, logouts and failed auth attempts.
C25_SessionMirrorsStorage ==
  mountPc # "hydrate"
  => /\ token = localStorage.token
     /\ IF user = Null
          THEN localStorage.user = Null
          ELSE /\ localStorage.user # Null
               /\ JSONparses(localStorage.user)
               /\ JSONparse(localStorage.user) = user

\* A session opened by a login or signup whose response carried a token.
C25_Witness ==
  /\ mountPc = "ready"
  /\ currentPage = "upload"
  /\ token = "t1" /\ localStorage.token = "t1"
  /\ user # Null /\ JSONparse(localStorage.user) = user

\* C26: for any initial persisted state, after a successful login or signup the
\* auth token held in memory and in storage is either the token of that response
\* or absent: a token persisted by an earlier session is never retained alongside
\* the newly set user profile.
C26_SuccessReplacesToken ==
  [][\A i \in DOMAIN authOps : \A r \in AuthResponses :
       (AuthSettles(i, r) /\ r.arrived /\ r.ok)
       => /\ token' \in {r.token, NULL}
          /\ localStorage'.token \in {r.token, NULL}]_vars

\* C27: a non-empty credential present in persistent storage at startup is never
\* removed from storage by startup itself: in every state between the hydrate
\* effect, which loaded it into apiKey, and the end of the mount effects, where
\* the user has not yet been able to edit it, the stitchpix_api_key entry holds it.
C27_StartupKeepsCredential ==
  (mountPc \in {"persist", "repersist"} /\ apiKey # "")
  => localStorage.api_key = apiKey

\* C28: in every reachable state in which the results page is the current page,
\* generatedImages holds exactly one result entry, with a url and a source tag in
\* {canvas, nanobanana, deepai, original}; handleReset and confirmLogout, and
\* every other step that empties generatedImages, leave the results page in the
\* same step.
C28_ResultsPageHasOneResult ==
  /\ [](currentPage = "results"
        => /\ Len(generatedImages) = 1
           /\ generatedImages[1].url \notin {Null, NoJob}
           /\ generatedImages[1].source \in {"canvas", "nanobanana", "deepai", "original"})
  /\ [][/\ (handleReset \/ confirmLogout)
           => generatedImages' = <<>> /\ currentPage' # "results"
        /\ (generatedImages # <<>> /\ generatedImages' = <<>>)
           => currentPage' # "results"]_vars

\* The results page showing the result a remote adapter returned.
C28_Witness ==
  /\ currentPage = "results"
  /\ Len(generatedImages) = 1
  /\ generatedImages[1].source = "nanobanana"

\* C29: when two files are picked in succession for the same slot, after both reads
\* have completed the stored photo is the later-picked file, whatever order the
\* two reads complete in: a completion that leaves no read of its slot
\* outstanding leaves in the slot the file its input holds, the one picked last.
C29_LaterPickWins ==
  [][\A op \in BagToSet(readOps) :
       (/\ ReadLoads(op)
        /\ \A other \in BagToSet(readOps') : other.type # op.type
        /\ inputFiles[op.type] # Null
        /\ validateImageFile(inputFiles[op.type]) = NoMsg)
       => IF op.type = "user"
            THEN userPhoto' = readAsDataURL(inputFiles.user)
            ELSE dressPhoto' = readAsDataURL(inputFiles.dress)]_vars

\* C30: for every canvas size W x H with W, H >= 1 the destination face region
\* computed by createMergedImages lies inside the canvas: faceX >= 0, faceY >= 0,
\* faceX + faceWidth <= W and faceY + faceHeight <= H.
C30_FaceRegionInsideCanvas ==
  (cmp.pc = "resolved" /\ cmp.result[1].source = "canvas")
  => LET dst == cmp.result[1].url.dst
     IN /\ dst[1] >= 0
        /\ dst[2] >= 0
        /\ dst[1] + dst[3] <= cmp.canvas[1]
        /\ dst[2] + dst[4] <= cmp.canvas[2]

====
